---- MODULE Spec2Model ----
(***************************************************************************)
(* RISC-V Encode / RISC-V Decode operations of CyberChef (TonyCrane fork). *)
(*                                                                         *)
(* Three drivers are modelled:                                             *)
(*   "Encode"    RISCVEncode.run with parseRef / deref / invRef            *)
(*               (the label-aware revision, src/Makefile:139-362)          *)
(*   "EncodeMjs" RISCVEncode.run of src/src/core/operations/               *)
(*               RISCVEncode.mjs (the revision without labels)             *)
(*   "Decode"    RISCVDecode.run (src/Makefile:26-137)                     *)
(* The Instruction class (lib/RISCV.mjs) is not part of the sources; it is *)
(* modelled from the specification for a small RV32I subset.               *)
(*                                                                         *)
(* JavaScript strings are TLA+ strings; Len, \o and SubSeq work on them.   *)
(***************************************************************************)
EXTENDS Integers, Sequences, FiniteSets, TLC

(***************************************************************************)
(* Bounds of the model.                                                    *)
(***************************************************************************)
MaxLines == 3
MaxWords == 2

(***************************************************************************)
(* TLC evaluates a LET definition or an operator argument again at every   *)
(* use.  With(v, Op) evaluates v once and applies Op to the value; in the  *)
(* actions \E x \in {v} : ... does the same.                               *)
(***************************************************************************)
With(v, Op(_)) == CHOOSE r \in {Op(x) : x \in {v}} : TRUE

(***************************************************************************)
(* JavaScript string primitives used by the drivers.                       *)
(***************************************************************************)
Char(s, i) == SubSeq(s, i, i)

WhiteSpace == {" ", "\t", "\n", "\r"}

Digits == {"0", "1", "2", "3", "4", "5", "6", "7", "8", "9"}

HexDigits == Digits \cup {"a", "b", "c", "d", "e", "f", "A", "B", "C", "D", "E", "F"}

\* String.prototype.trim
trim(s) ==
    LET n  == Len(s)
        \* lo: characters dropped at the front; hi: characters dropped at the end
        lo == CHOOSE k \in 0..n :
                  /\ \A j \in 1..k : Char(s, j) \in WhiteSpace
                  /\ k < n => Char(s, k + 1) \notin WhiteSpace
        hi == CHOOSE k \in 0..n :
                  /\ \A j \in 1..k : Char(s, n + 1 - j) \in WhiteSpace
                  /\ k < n => Char(s, n - k) \notin WhiteSpace
    IN  IF lo = n THEN "" ELSE SubSeq(s, lo + 1, n - hi)

\* String.prototype.includes
includes(s, sub) ==
    \E i \in 1..(Len(s) - Len(sub) + 1) : SubSeq(s, i, i + Len(sub) - 1) = sub

\* String.prototype.endsWith
endsWith(s, suf) ==
    /\ Len(s) >= Len(suf)
    /\ SubSeq(s, Len(s) - Len(suf) + 1, Len(s)) = suf

\* String.prototype.toLowerCase (ASCII letters)
UpperCase ==
    {"A", "B", "C", "D", "E", "F", "G", "H", "I", "J", "K", "L", "M",
     "N", "O", "P", "Q", "R", "S", "T", "U", "V", "W", "X", "Y", "Z"}

LowerChar(c) ==
    IF c \notin UpperCase THEN c
    ELSE CASE c = "A" -> "a" [] c = "B" -> "b" [] c = "C" -> "c" [] c = "D" -> "d"
           [] c = "E" -> "e" [] c = "F" -> "f" [] c = "G" -> "g" [] c = "H" -> "h"
           [] c = "I" -> "i" [] c = "J" -> "j" [] c = "K" -> "k" [] c = "L" -> "l"
           [] c = "M" -> "m" [] c = "N" -> "n" [] c = "O" -> "o" [] c = "P" -> "p"
           [] c = "Q" -> "q" [] c = "R" -> "r" [] c = "S" -> "s" [] c = "T" -> "t"
           [] c = "U" -> "u" [] c = "V" -> "v" [] c = "W" -> "w" [] c = "X" -> "x"
           [] c = "Y" -> "y" [] OTHER -> "z"

RECURSIVE toLowerCase(_)
toLowerCase(s) ==
    IF Len(s) = 0 THEN ""
    ELSE IF Len(s) = 1 THEN LowerChar(s)
    ELSE toLowerCase(SubSeq(s, 1, Len(s) \div 2))
         \o toLowerCase(SubSeq(s, Len(s) \div 2 + 1, Len(s)))

\* The k-th smallest element of a set of numbers.
NthOf(P, k) == CHOOSE p \in P : Cardinality({q \in P : q <= p}) = k

\* The pieces of s between the separator positions P, empty pieces kept.
PiecesBetween(s, P) ==
    LET lo(k) == IF k = 1 THEN 1 ELSE NthOf(P, k - 1) + 1
        hi(k) == IF k = Cardinality(P) + 1 THEN Len(s) ELSE NthOf(P, k) - 1
    IN  [k \in 1..(Cardinality(P) + 1) |->
            IF lo(k) > hi(k) THEN "" ELSE SubSeq(s, lo(k), hi(k))] \o <<>>

\* String.prototype.split with a one-character string separator:
\* every occurrence separates, empty pieces are kept.
split(s, sep) ==
    With({p \in 1..Len(s) : Char(s, p) = sep}, LAMBDA P : PiecesBetween(s, P))

\* The maximal runs of non-separator characters of s that start at S.
RunsFrom(s, seps, S) ==
    LET end(p) == CHOOSE q \in p..Len(s) :
                      /\ \A r \in p..q : Char(s, r) \notin seps
                      /\ q < Len(s) => Char(s, q + 1) \in seps
    IN  [k \in 1..Cardinality(S) |-> SubSeq(s, NthOf(S, k), end(NthOf(S, k)))] \o <<>>

\* String.prototype.split with a regular expression /[...]+/ : a maximal run
\* of separator characters separates once; a leading or trailing run leaves
\* an empty first or last piece.
splitRegex(s, seps) ==
    IF s = "" THEN <<"">>
    ELSE (IF Char(s, 1) \in seps THEN <<"">> ELSE <<>>)
         \o With({p \in 1..Len(s) : /\ Char(s, p) \notin seps
                                    /\ p > 1 => Char(s, p - 1) \in seps},
                 LAMBDA S : RunsFrom(s, seps, S))
         \o (IF Char(s, Len(s)) \in seps THEN <<"">> ELSE <<>>)

\* Array.prototype.join
RECURSIVE join(_, _)
join(arr, sep) ==
    IF arr = <<>> THEN ""
    ELSE IF Len(arr) = 1 THEN arr[1]
    ELSE arr[1] \o sep \o join(Tail(arr), sep)

\* isNaN(parseInt(s, radix)) for radix 10 and 16: parseInt skips leading
\* white space, an optional sign and (radix 16) an optional 0x / 0X prefix,
\* and is NaN exactly when no digit of the radix follows.
parseIntIsNaN(s, radix) ==
    LET nonws == {i \in 1..Len(s) : Char(s, i) \notin WhiteSpace}
        p0    == IF nonws = {} THEN Len(s) + 1
                 ELSE CHOOSE i \in nonws : \A j \in nonws : i <= j
        p1    == IF p0 <= Len(s) /\ Char(s, p0) \in {"+", "-"} THEN p0 + 1 ELSE p0
        p2    == IF radix = 16 /\ p1 + 1 <= Len(s)
                    /\ SubSeq(s, p1, p1 + 1) \in {"0x", "0X"}
                 THEN p1 + 2 ELSE p1
    IN  ~ (p2 <= Len(s)
           /\ Char(s, p2) \in (IF radix = 16 THEN HexDigits ELSE Digits))

\* Number.prototype.toString(radix) for integers, radix 10 or 16.
DigitChar(d) == Char("0123456789abcdef", d + 1)

NatToString(n, radix) ==
    LET F[m \in Nat] ==
            IF m < radix THEN DigitChar(m) ELSE F[m \div radix] \o DigitChar(m % radix)
    IN  F[n]

toString(n, radix) ==
    IF n < 0 THEN "-" \o NatToString(-n, radix) ELSE NatToString(n, radix)

\* String.prototype.padStart(n, "0"); n may be -Infinity (modelled as -1).
RECURSIVE padStart(_, _)
padStart(s, n) == IF Len(s) >= n THEN s ELSE padStart("0" \o s, n)

(***************************************************************************)
(* Instruction (lib/RISCV.mjs), modelled from the specification for the    *)
(* RV32I formats I (OP-IMM), B (branches) and J (jal).  A word is a string *)
(* of 32 bit characters, most significant first.                           *)
(***************************************************************************)
Pow2(n) == 2 ^ n

\* The low n bits of v, most significant bit first: the high half of the
\* bits, then the low half.
RECURSIVE NatBits(_, _)
NatBits(v, n) ==
    IF n = 0 THEN ""
    ELSE IF n = 1 THEN (IF v % 2 = 1 THEN "1" ELSE "0")
    ELSE NatBits(v \div Pow2(n \div 2), n - n \div 2) \o NatBits(v, n \div 2)

\* n-bit two's complement of v.
ToBits(v, n) == NatBits((v + Pow2(n)) % Pow2(n), n)

RECURSIVE BitsToNat(_)
BitsToNat(b) ==
    IF Len(b) = 0 THEN 0
    ELSE IF Len(b) = 1 THEN (IF b = "1" THEN 1 ELSE 0)
    ELSE BitsToNat(SubSeq(b, 1, Len(b) \div 2)) * Pow2(Len(b) - Len(b) \div 2)
         + BitsToNat(SubSeq(b, Len(b) \div 2 + 1, Len(b)))

BitsToInt(b) ==
    IF Char(b, 1) = "1" THEN BitsToNat(b) - Pow2(Len(b)) ELSE BitsToNat(b)

RECURSIVE BinToHex(_)
BinToHex(b) ==
    IF Len(b) = 0 THEN ""
    ELSE IF Len(b) = 4 THEN DigitChar(BitsToNat(b))
    ELSE BinToHex(SubSeq(b, 1, 4 * (Len(b) \div 8)))
         \o BinToHex(SubSeq(b, 4 * (Len(b) \div 8) + 1, Len(b)))

HexVal(c) ==
    LET l == LowerChar(c)
    IN  CHOOSE d \in 0..15 : DigitChar(d) = l

RECURSIVE HexToBin(_)
HexToBin(h) ==
    IF Len(h) = 0 THEN ""
    ELSE IF Len(h) = 1 THEN NatBits(HexVal(h), 4)
    ELSE HexToBin(SubSeq(h, 1, Len(h) \div 2)) \o HexToBin(SubSeq(h, Len(h) \div 2 + 1, Len(h)))

RECURSIVE StrToNat(_, _)
StrToNat(s, radix) ==
    IF Len(s) = 0 THEN 0
    ELSE IF Len(s) = 1 THEN HexVal(s)
    ELSE StrToNat(SubSeq(s, 1, Len(s) \div 2), radix) * radix ^ (Len(s) - Len(s) \div 2)
         + StrToNat(SubSeq(s, Len(s) \div 2 + 1, Len(s)), radix)

AllIn(s, set) == \A i \in 1..Len(s) : Char(s, i) \in set

\* An immediate operand: a decimal integer or a 0x-prefixed hex integer,
\* with an optional minus sign.  Seven digits cover every immediate range.
ParseImm(tok) ==
    LET neg  == Len(tok) >= 1 /\ Char(tok, 1) = "-"
        body == IF neg THEN SubSeq(tok, 2, Len(tok)) ELSE tok
        hex  == Len(body) >= 3 /\ SubSeq(body, 1, 2) = "0x"
        digs == IF hex THEN SubSeq(body, 3, Len(body)) ELSE body
        ok   == /\ Len(digs) >= 1 /\ Len(digs) <= 7
                /\ AllIn(digs, IF hex THEN HexDigits ELSE Digits)
        mag  == IF ok THEN StrToNat(digs, IF hex THEN 16 ELSE 10) ELSE 0
    IN  [ok |-> ok, val |-> IF neg THEN -mag ELSE mag]

AbiNames ==
    << "zero", "ra", "sp", "gp", "tp", "t0", "t1", "t2", "s0", "s1",
       "a0", "a1", "a2", "a3", "a4", "a5", "a6", "a7",
       "s2", "s3", "s4", "s5", "s6", "s7", "s8", "s9", "s10", "s11",
       "t3", "t4", "t5", "t6" >>

NumericName(idx) == "x" \o toString(idx, 10)

AbiName(idx) == AbiNames[idx + 1]

\* Register token -> index 0..31, or -1 for a name outside the catalog.
RegIndex(tok) ==
    LET digs == SubSeq(tok, 2, Len(tok))
        abi  == {r \in 0..31 : AbiNames[r + 1] = tok}
    IN  IF /\ Len(tok) \in {2, 3} /\ Char(tok, 1) = "x" /\ AllIn(digs, Digits)
           /\ (Len(digs) = 1 \/ Char(digs, 1) # "0")
           /\ StrToNat(digs, 10) <= 31
        THEN StrToNat(digs, 10)
        ELSE IF abi = {} THEN -1 ELSE CHOOSE r \in abi : TRUE

OpImm == [addi |-> "000", slti |-> "010", sltiu |-> "011",
          xori |-> "100", ori |-> "110", andi |-> "111"]

Branch == [beq |-> "000", bne |-> "001", blt |-> "100",
           bge |-> "101", bltu |-> "110", bgeu |-> "111"]

Illegal == [ok |-> FALSE, hex |-> "", bin |-> "", asm |-> ""]

Encoded(bin) == [ok |-> TRUE, hex |-> BinToHex(bin), bin |-> bin, asm |-> ""]

EncodeOpImm(mne, rd, rs1, imm) ==
    IF rd >= 0 /\ rs1 >= 0 /\ imm.ok /\ imm.val >= -2048 /\ imm.val <= 2047
    THEN Encoded(ToBits(imm.val, 12) \o ToBits(rs1, 5) \o OpImm[mne]
                 \o ToBits(rd, 5) \o "0010011")
    ELSE Illegal

\* Mutant: imm[12] and imm[11] change places in the word.
EncodeBranchMutant(mne, rs1, rs2, imm, b) ==
    IF rs1 >= 0 /\ rs2 >= 0 /\ imm.ok /\ imm.val >= -4096 /\ imm.val <= 4094
       /\ imm.val % 2 = 0
    THEN Encoded(Char(b, 2) \o SubSeq(b, 3, 8) \o ToBits(rs2, 5) \o ToBits(rs1, 5)
                 \o Branch[mne] \o SubSeq(b, 9, 12) \o Char(b, 1) \o "1100011")
    ELSE Illegal

\* b: the 13 bits of the offset; b[1] is imm[12], b[13] is imm[0].
EncodeBranch(mne, rs1, rs2, imm, b) ==
    IF rs1 >= 0 /\ rs2 >= 0 /\ imm.ok /\ imm.val >= -4096 /\ imm.val <= 4094
       /\ imm.val % 2 = 0
    THEN Encoded(Char(b, 1) \o SubSeq(b, 3, 8) \o ToBits(rs2, 5) \o ToBits(rs1, 5)
                 \o Branch[mne] \o SubSeq(b, 9, 12) \o Char(b, 2) \o "1100011")
    ELSE Illegal

\* b: the 21 bits of the offset; b[1] is imm[20], b[21] is imm[0].
EncodeJal(rd, imm, b) ==
    IF rd >= 0 /\ imm.ok /\ imm.val >= -1048576 /\ imm.val <= 1048574
       /\ imm.val % 2 = 0
    THEN Encoded(Char(b, 1) \o SubSeq(b, 11, 20) \o Char(b, 10) \o SubSeq(b, 2, 9)
                 \o ToBits(rd, 5) \o "1101111")
    ELSE Illegal

EncodeTokens(tokens) ==
    IF tokens[1] \in DOMAIN OpImm /\ Len(tokens) = 4
    THEN With(ParseImm(tokens[4]),
              LAMBDA imm : EncodeOpImm(tokens[1], RegIndex(tokens[2]),
                                       RegIndex(tokens[3]), imm))
    ELSE IF tokens[1] \in DOMAIN Branch /\ Len(tokens) = 4
    THEN With(ParseImm(tokens[4]),
              LAMBDA imm : With(ToBits(imm.val, 13),
                  LAMBDA b : EncodeBranch(tokens[1], RegIndex(tokens[2]),
                                          RegIndex(tokens[3]), imm, b)))
    ELSE IF tokens[1] = "jal" /\ Len(tokens) = 3
    THEN With(ParseImm(tokens[3]),
              LAMBDA imm : With(ToBits(imm.val, 21),
                  LAMBDA b : EncodeJal(RegIndex(tokens[2]), imm, b)))
    ELSE Illegal

\* new Instruction(asm, {ISA}) : encode direction.
InstructionEncode(text) ==
    With(splitRegex(toLowerCase(text), {" ", ",", "(", ")"}), EncodeTokens)

RegName(idx, abi) == IF abi THEN AbiName(idx) ELSE NumericName(idx)

ImmText(v, immAsHex) ==
    IF immAsHex THEN (IF v < 0 THEN "-0x" \o toString(-v, 16) ELSE "0x" \o toString(v, 16))
    ELSE toString(v, 10)

Mnemonic(table, funct3) ==
    LET hits == {m \in DOMAIN table : table[m] = funct3}
    IN  IF hits = {} THEN "" ELSE CHOOSE m \in hits : TRUE

Decoded(asm) == [ok |-> TRUE, hex |-> "", bin |-> "", asm |-> asm]

\* The text of an instruction: its mnemonic and registers, then the
\* immediate the bits immBits hold.
DecodedImm(head, immBits, immAsHex) ==
    With(BitsToInt(immBits), LAMBDA v : Decoded(head \o ImmText(v, immAsHex)))

\* w: the 32 bits of the word; w[1] is bit 31.
DecodeWord(w, abi, immAsHex) ==
    LET opcode == SubSeq(w, 26, 32)
        rd     == BitsToNat(SubSeq(w, 21, 25))
        funct3 == SubSeq(w, 18, 20)
        rs1    == BitsToNat(SubSeq(w, 13, 17))
        rs2    == BitsToNat(SubSeq(w, 8, 12))
    IN  IF opcode = "0010011" /\ Mnemonic(OpImm, funct3) # ""
        THEN DecodedImm(Mnemonic(OpImm, funct3) \o " " \o RegName(rd, abi) \o ", "
                        \o RegName(rs1, abi) \o ", ",
                        SubSeq(w, 1, 12), immAsHex)
        ELSE IF opcode = "1100011" /\ Mnemonic(Branch, funct3) # ""
        THEN DecodedImm(Mnemonic(Branch, funct3) \o " " \o RegName(rs1, abi) \o ", "
                        \o RegName(rs2, abi) \o ", ",
                        Char(w, 1) \o Char(w, 25) \o SubSeq(w, 2, 7)
                        \o SubSeq(w, 21, 24) \o "0", immAsHex)
        ELSE IF opcode = "1101111"
        THEN DecodedImm("jal " \o RegName(rd, abi) \o ", ",
                        Char(w, 1) \o SubSeq(w, 13, 20) \o Char(w, 12)
                        \o SubSeq(w, 2, 11) \o "0", immAsHex)
        ELSE Illegal

\* new Instruction(hex, {ISA, ABI, immAsHex}) : decode direction.
InstructionDecode(instHex, abi, immAsHex) ==
    IF ~ (Len(instHex) = 8 /\ AllIn(instHex, HexDigits)) THEN Illegal
    ELSE With(HexToBin(instHex), LAMBDA w : DecodeWord(w, abi, immAsHex))

(***************************************************************************)
(* External helpers the drivers call (lib/Hex.mjs).                        *)
(***************************************************************************)
\* fromHex: one byte per pair of hex digits.
RECURSIVE fromHex(_)
fromHex(h) ==
    IF Len(h) < 2 THEN <<>>
    ELSE <<16 * HexVal(Char(h, 1)) + HexVal(Char(h, 2))>> \o fromHex(SubSeq(h, 3, Len(h)))

\* toHexFast: two lower-case hex digits per byte.
RECURSIVE toHexFast(_)
toHexFast(bytes) ==
    IF bytes = <<>> THEN ""
    ELSE DigitChar(bytes[1] \div 16) \o DigitChar(bytes[1] % 16) \o toHexFast(Tail(bytes))

(***************************************************************************)
(* Inputs of the model.                                                    *)
(***************************************************************************)
\* Source lines the assembler input is drawn from.
SourceLines ==
    { "",
      "L:",
      "M: addi x1, x1, 1",
      "addi x1, x1, 1",
      "li x1, L",
      "BEQ x1, x2, L",
      "jal x1, 8",
      "a0x1:",
      "jal x1, a0x1",
      "jal x1, toString",
      "1a:" }

\* 4-byte words the disassembler input is drawn from, and a trailing rest.
SourceWords ==
    { <<0, 0, 0, 19>>, <<0, 16, 128, 147>>, <<254, 32, 142, 227>>,
      <<0, 128, 0, 239>>, <<255, 255, 255, 255>>, <<0, 0, 0, 0>> }

SourceRests == { <<>>, <<19>>, <<0, 19>>, <<255, 255, 255>> }

\* Legal words that may follow the drawn words: with them the input is
\* longer than 16 bytes and its addresses take two hex digits.
SourcePadding ==
    { <<>>, <<0, 0, 0, 19, 0, 0, 0, 19, 0, 0, 0, 19, 0, 0, 0, 19>> }

RECURSIVE SeqsUpTo(_, _)
SeqsUpTo(S, n) ==
    IF n = 0 THEN {<<>>}
    ELSE LET shorter == SeqsUpTo(S, n - 1)
         IN  shorter \cup {Append(q, x) : q \in {r \in shorter : Len(r) = n - 1}, x \in S}

RECURSIVE Flatten(_)
Flatten(ws) == IF ws = <<>> THEN <<>> ELSE ws[1] \o Flatten(Tail(ws))

OutputModes == {"Raw bytes", "Hex string", "Binary string"}

EncodeArgs ==
    { a \in [outputMode : OutputModes, ignoreIllegal : BOOLEAN, showAddr : BOOLEAN,
             showInput : BOOLEAN, abi : {FALSE}, showBytecode : {FALSE},
             showImmAsHex : {FALSE}] :
        a.outputMode = "Raw bytes" => (~ a.showAddr /\ ~ a.showInput) }

\* The arguments the label-aware assembler is explored with: labels do not
\* depend on the output format, so one textual format with every decoration.
AssemblerArgs ==
    { a \in EncodeArgs : a.outputMode = "Hex string" /\ a.showAddr /\ a.showInput }

DecodeArgs ==
    [outputMode : {"Raw bytes"}, ignoreIllegal : BOOLEAN, showAddr : BOOLEAN,
     showInput : {FALSE}, abi : BOOLEAN, showBytecode : BOOLEAN, showImmAsHex : BOOLEAN]

(***************************************************************************)
(* State.                                                                  *)
(***************************************************************************)
VARIABLES
    operation,     \* "Encode" | "EncodeMjs" | "Decode" | "Codec" | "Brainfuck"
    commands,      \* run(commands, args): the assembler's input string
    bytesIn,       \* run(insts, args): the disassembler's input byte array
    args,          \* the operation's arguments
    pc,            \* "start" | "parseRef" | "run" | "done" | "error"
    codes,         \* parseRef: the lines left after split / shift / pop
    i,             \* loop index of parseRef, then of run
    refList,       \* parseRef: label table, in insertion order
    insts,         \* instruction texts queued by parseRef (or split by run)
    lineMap,       \* lineMap[k+1]: source line recorded for instruction k
    ret,           \* output lines
    instBytes,     \* raw output bytes
    codecCalls,    \* arguments of every new Instruction(...) so far
    result,        \* what run returned or threw
    nodes,         \* RunBrainfuck: the nodes parse built, as their characters
    input,         \* RunBrainfuck: code units of the input not read yet
    output,        \* RunBrainfuck: code units of the characters pushed so far
    data,          \* RunBrainfuck: the cells that have been written
    ptr,           \* RunBrainfuck: the data pointer
    frames         \* RunBrainfuck: the node functions being executed

\* The closure variables of RunBrainfuck.parse.
interpreter == <<nodes, input, output, data, ptr, frames>>

vars == <<operation, commands, bytesIn, args, pc, codes, i, refList, insts,
          lineMap, ret, instBytes, codecCalls, result, interpreter>>

\* RunBrainfuck has not been called.
InterpreterIdle ==
    /\ nodes = <<>>
    /\ input = <<>>
    /\ output = <<>>
    /\ data = <<>>
    /\ ptr = 0
    /\ frames = <<>>

NoResult == [kind |-> "none", line |-> 0, name |-> "", addr |-> "", bytes |-> <<>>, text |-> ""]

Threw(kind, line, name) == [NoResult EXCEPT !.kind = kind, !.line = line, !.name = name]

InitOf(op) ==
    /\ operation = op
    /\ IF operation = "Decode"
       THEN /\ commands = ""
            /\ \E ws \in SeqsUpTo(SourceWords, MaxWords), p \in SourcePadding,
                  r \in SourceRests :
                   bytesIn = Flatten(ws) \o p \o r
            /\ args \in DecodeArgs
       ELSE /\ \E ls \in SeqsUpTo(SourceLines, MaxLines) : commands = join(ls, "\n")
            /\ bytesIn = <<>>
            /\ args \in (IF op = "Encode" THEN AssemblerArgs ELSE EncodeArgs)
    /\ pc = "start"
    /\ codes = <<>>
    /\ i = 0
    /\ refList = <<>>
    /\ insts = <<>>
    /\ lineMap = <<>>
    /\ ret = <<>>
    /\ instBytes = <<>>
    /\ codecCalls = <<>>
    /\ result = NoResult
    /\ InterpreterIdle

\* Register operands as written and the register they name.
CodecRegs ==
    { <<"x0", 0>>, <<"zero", 0>>, <<"x10", 10>>, <<"a0", 10>>, <<"x31", 31>>, <<"t6", 31>> }

\* Immediate operands as written and their value, per format: the ends of
\* the range and values around zero, in decimal and in hex.
CodecImms(mne) ==
    IF mne \in DOMAIN OpImm
    THEN { <<"-2048", -2048>>, <<"-0x1", -1>>, <<"0", 0>>, <<"1", 1>>, <<"0x7ff", 2047>> }
    ELSE IF mne \in DOMAIN Branch
    THEN { <<"-4096", -4096>>, <<"-0x2", -2>>, <<"0", 0>>, <<"2048", 2048>>,
           <<"0xffe", 4094>> }
    ELSE { <<"-1048576", -1048576>>, <<"-0x2", -2>>, <<"0", 0>>, <<"2048", 2048>>,
           <<"0xffffe", 1048574>> }

\* The instructions of the codec's table over these operands: the text of
\* the instruction, its mnemonic, its registers and its immediate.
CodecInstructions ==
    { [text |-> mne \o " " \o ra[1] \o ", " \o rb[1] \o ", " \o imm[1],
       mne |-> mne, regs |-> <<ra[2], rb[2]>>, imm |-> imm[2]] :
          <<mne, ra, rb, imm>> \in
              UNION { {m} \X CodecRegs \X CodecRegs \X CodecImms(m) :
                          m \in DOMAIN OpImm \cup DOMAIN Branch } }
    \cup
    { [text |-> "jal " \o ra[1] \o ", " \o imm[1],
       mne |-> "jal", regs |-> <<ra[2]>>, imm |-> imm[2]] :
          <<ra, imm>> \in CodecRegs \X CodecImms("jal") }

\* One instruction handed to the codec and the word handed back to it.
InitCodec ==
    /\ operation = "Codec"
    /\ \E x \in CodecInstructions, abi \in BOOLEAN, immAsHex \in BOOLEAN :
           /\ commands = x.text
           /\ args = [mne |-> x.mne, regs |-> x.regs, imm |-> x.imm,
                      abi |-> abi, showImmAsHex |-> immAsHex]
    /\ bytesIn = <<>>
    /\ pc = "start"
    /\ codes = <<>>
    /\ i = 0
    /\ refList = <<>>
    /\ insts = <<>>
    /\ lineMap = <<>>
    /\ ret = <<>>
    /\ instBytes = <<>>
    /\ codecCalls = <<>>
    /\ result = NoResult
    /\ InterpreterIdle

\* Programs for RunBrainfuck: straight-line code, the left edge of the
\* tape, reads, characters that are no instruction, brackets without
\* partner, loops that end, loops that do not, loops within loops.
Programs ==
    { "", "+.", "<<+>-.", "-[+]", ",.,", "a+ b.", "]+", "[+", "++[-]", "+[]",
      "+[[]]", ",[>,[-]<-]" }

\* Inputs, as UTF-16 code units.
Inputs == { <<>>, <<2, 6000, 6000>> }

\* run(input, args): input is the program, args[0] the program's input.
InitBrainfuck ==
    /\ operation = "Brainfuck"
    /\ commands \in Programs
    /\ \E bfInput \in Inputs : args = [bfInput |-> bfInput]
    /\ bytesIn = <<>>
    /\ pc = "start"
    /\ codes = <<>>
    /\ i = 0
    /\ refList = <<>>
    /\ insts = <<>>
    /\ lineMap = <<>>
    /\ ret = <<>>
    /\ instBytes = <<>>
    /\ codecCalls = <<>>
    /\ result = NoResult
    /\ InterpreterIdle

Init ==
    \/ \E op \in {"Encode", "EncodeMjs", "Decode"} : InitOf(op)
    \/ InitCodec
    \/ InitBrainfuck

\* Source lines for the output of the assembler: labels that alias an
\* address, an address without label, a line the codec rejects.
LabelLines ==
    { "L:", "M: addi x1, x1, 1", "addi x1, x1, 1", "jal x1, L", "li x1, L" }

\* The label-aware assembler entered under every output configuration.
InitEncodeModes ==
    /\ operation = "Encode"
    /\ \E ls \in SeqsUpTo(LabelLines, MaxLines) : commands = join(ls, "\n")
    /\ bytesIn = <<>>
    /\ args \in EncodeArgs
    /\ pc = "start"
    /\ codes = <<>>
    /\ i = 0
    /\ refList = <<>>
    /\ insts = <<>>
    /\ lineMap = <<>>
    /\ ret = <<>>
    /\ instBytes = <<>>
    /\ codecCalls = <<>>
    /\ result = NoResult
    /\ InterpreterIdle

(***************************************************************************)
(* RISCVEncode.parseRef                                                    *)
(***************************************************************************)
\* commands.split(/\n+/), then shift() of an empty first and pop() of an
\* empty last element.
SplitCommands(text) ==
    LET c0 == splitRegex(text, {"\n"})
        c1 == IF c0[1] = "" THEN Tail(c0) ELSE c0
    IN  IF c1 # <<>> /\ c1[Len(c1)] = "" THEN SubSeq(c1, 1, Len(c1) - 1) ELSE c1

\* Property names every object literal {} inherits from Object.prototype.
ObjectPrototypeKeys ==
    { "constructor", "hasOwnProperty", "isPrototypeOf", "propertyIsEnumerable",
      "toLocaleString", "toString", "valueOf", "__proto__", "__defineGetter__",
      "__defineSetter__", "__lookupGetter__", "__lookupSetter__" }

\* refList[name] on the object literal: an own label, an inherited member
\* of Object.prototype, or undefined.
RefLookup(refs, name) ==
    LET own == {k \in 1..Len(refs) : refs[k].name = name}
    IN  IF own # {} THEN [kind |-> "own", addr |-> refs[CHOOSE k \in own : TRUE].addr]
        ELSE IF name \in ObjectPrototypeKeys THEN [kind |-> "inherited", addr |-> 0]
        ELSE [kind |-> "undefined", addr |-> 0]

\* Mutant: the duplicate check is left out.
IsDuplicateMutant(refs, name) == FALSE

\* refList[refName] !== undefined
IsDuplicate(refs, name) == RefLookup(refs, name).kind # "undefined"

\* Mutant: the address counts the instruction about to be queued.
LabelAddressMutant(queued) == (Len(queued) + 1) * 4

\* insts.length * 4
LabelAddress(queued) == Len(queued) * 4

\* /^\d/.test(refName)
StartsWithDigit(s) == Len(s) >= 1 /\ Char(s, 1) \in Digits

ParseRefStart ==
    /\ pc = "start"
    /\ operation = "Encode"
    /\ codes' = SplitCommands(commands)
    /\ pc' = "parseRef"
    /\ UNCHANGED <<interpreter, operation, commands, bytesIn, args, i, refList, insts, lineMap,
                   ret, instBytes, codecCalls, result>>

\* One iteration of parseRef's loop over codes.
ParseRefLine ==
    /\ pc = "parseRef"
    /\ i < Len(codes)
    /\ \E line \in {codes[i + 1]} :
       \E trimmed \in {trim(line)} :
       \E refName \in {split(trimmed, ":")[1]} :
           IF ~ includes(line, ":")
           THEN /\ lineMap' = Append(lineMap, i + 1)
                /\ insts' = Append(insts, trimmed)
                /\ i' = i + 1
                /\ UNCHANGED <<refList, pc, result>>
           ELSE IF IsDuplicate(refList, refName)
           THEN /\ result' = Threw("DuplicateLabel", i + 1, refName)
                /\ pc' = "error"
                /\ UNCHANGED <<refList, insts, lineMap, i>>
           ELSE IF StartsWithDigit(refName)
           THEN /\ result' = Threw("InvalidLabelName", i + 1, refName)
                /\ pc' = "error"
                /\ UNCHANGED <<refList, insts, lineMap, i>>
           ELSE /\ refList' = Append(refList, [name |-> refName, addr |-> LabelAddress(insts)])
                /\ IF ~ endsWith(trimmed, ":")
                   THEN /\ lineMap' = Append(lineMap, i + 1)
                        /\ insts' = Append(insts, trim(split(trimmed, ":")[2]))
                   ELSE UNCHANGED <<lineMap, insts>>
                /\ i' = i + 1
                /\ UNCHANGED <<pc, result>>
    /\ UNCHANGED <<interpreter, operation, commands, bytesIn, args, codes, ret, instBytes, codecCalls>>

\* parseRef returns [insts, refList, lineMap]; run goes on to its own loop.
ParseRefReturn ==
    /\ pc = "parseRef"
    /\ i = Len(codes)
    /\ pc' = "run"
    /\ i' = 0
    /\ UNCHANGED <<interpreter, operation, commands, bytesIn, args, codes, refList, insts, lineMap,
                   ret, instBytes, codecCalls, result>>

(***************************************************************************)
(* RISCVEncode.deref and RISCVEncode.invRef                                *)
(***************************************************************************)
\* Mutant: the load-immediate alias is taken for a control transfer.
mneListMutant == {"jal", "beq", "bne", "blt", "bge", "bltu", "bgeu", "li"}

mneList == {"jal", "beq", "bne", "blt", "bge", "bltu", "bgeu"}

\* The numeric-literal test of deref.
IsNumericTarget(target) ==
    \/ includes(target, "0x") /\ ~ parseIntIsNaN(target, 16)
    \/ ~ parseIntIsNaN(target, 10)

\* The body of deref once inst is split into tokens.
derefTokens(inst, tokens, target, refs, instAddr) ==
    LET ref    == RefLookup(refs, target)
        \* an inherited member is a function or object: member - instAddr is NaN
        offset == IF ref.kind = "own" THEN toString(ref.addr - instAddr, 10) ELSE "NaN"
    IN  IF toLowerCase(tokens[1]) \notin mneList
        THEN [threw |-> FALSE, text |-> inst, name |-> ""]
        ELSE IF IsNumericTarget(target)
        THEN [threw |-> FALSE, text |-> inst, name |-> ""]
        ELSE IF ref.kind = "undefined"
        THEN [threw |-> TRUE, text |-> "", name |-> target]
        ELSE [threw |-> FALSE,
              text |-> join(SubSeq(tokens, 1, Len(tokens) - 1), " ") \o " " \o offset,
              name |-> ""]

\* deref: [threw, text, name]; text is what is handed to Instruction, name
\* the label of the Undefined label error (at line lineNum).
deref(inst, refs, lineNum, instAddr) ==
    With(splitRegex(inst, {" ", ",", "(", ")"}),
         LAMBDA tokens : derefTokens(inst, tokens, tokens[Len(tokens)], refs, instAddr))

\* invRef(refList)[dest]: the labels whose address is dest, in insertion
\* order; <<>> stands for undefined.
\* Mutant: only the first label of an address is kept.
invRefMutant(refs, dest) ==
    LET at == {k \in 1..Len(refs) : refs[k].addr = dest}
    IN  IF at = {} THEN <<>> ELSE <<refs[CHOOSE k \in at : \A m \in at : k <= m].name>>

invRef(refs, dest) ==
    LET F[k \in 0..Len(refs)] ==
            IF k = 0 THEN <<>>
            ELSE IF refs[k].addr = dest THEN Append(F[k - 1], refs[k].name) ELSE F[k - 1]
    IN  F[Len(refs)]

(***************************************************************************)
(* RISCVEncode.run                                                         *)
(***************************************************************************)
\* Math.ceil(Math.log(instNum * 4) / Math.log(16)); -Infinity (here -1)
\* for instNum = 0.
AddrLength(instNum) ==
    IF instNum = 0 THEN -1
    ELSE CHOOSE k \in 0..8 : /\ 16 ^ k >= instNum * 4
                             /\ \A j \in 0..(k - 1) : 16 ^ j < instNum * 4

\* Mutant: the slot index in place of the byte address.
AddrTextMutant(k, addrLength) == "0x" \o padStart(toString(k, 16), addrLength)

\* `0x${(i * 4).toString(16).padStart(addrLength, "0")}`
AddrText(k, addrLength) == "0x" \o padStart(toString(k * 4, 16), addrLength)

\* A property read that yields undefined.
JSUndefined == "undefined"

\* The substitute of the label-aware revision.
FillInstruction == [ok |-> TRUE, hex |-> "ffffffff",
                    bin |-> "11111111111111111111111111111111", asm |-> ""]

\* The substitute of RISCVEncode.mjs: Object({hex: "ffffffff"}) has no bin.
FillInstructionMjs == [ok |-> TRUE, hex |-> "ffffffff", bin |-> JSUndefined, asm |-> ""]

InstStr(inst, outputMode) == IF outputMode = "Hex string" THEN inst.hex ELSE inst.bin

LabelSuffix(labels) ==
    IF labels = <<>> THEN "" ELSE " (label: " \o join(labels, ", ") \o ")"

\* The line pushed to ret by the label-aware run.
EncodeLine(k, inst, a, instNum, instText, labels) ==
    LET instStr == InstStr(inst, a.outputMode)
        addr    == AddrText(k, AddrLength(instNum))
    IN  IF a.showAddr /\ a.showInput
        THEN addr \o ": " \o instStr \o " [ " \o trim(instText) \o " ]" \o LabelSuffix(labels)
        ELSE IF a.showAddr THEN addr \o ": " \o instStr
        ELSE IF a.showInput
        THEN instStr \o " [ " \o trim(instText) \o " ]" \o LabelSuffix(labels)
        ELSE instStr

\* The line pushed to ret by RISCVEncode.mjs; a pushed undefined joins as "".
EncodeLineMjs(k, inst, a, instNum, instText) ==
    LET instStr == InstStr(inst, a.outputMode)
        addr    == AddrText(k, AddrLength(instNum))
    IN  IF a.showAddr /\ a.showInput
        THEN addr \o ": " \o instStr \o " [ " \o trim(instText) \o " ]"
        ELSE IF a.showAddr THEN addr \o ": " \o instStr
        ELSE IF a.showInput THEN instStr \o " [ " \o trim(instText) \o " ]"
        ELSE IF instStr = JSUndefined THEN "" ELSE instStr

Returned(a, bytes, lines) ==
    IF a.outputMode = "Raw bytes" THEN [NoResult EXCEPT !.kind = "ok", !.bytes = bytes]
    ELSE [NoResult EXCEPT !.kind = "ok", !.text = join(lines, "\n")]

\* One iteration of the loop of the label-aware run.
RunEncodeInst ==
    /\ pc = "run"
    /\ operation = "Encode"
    /\ i < Len(insts)
    /\ \E instDeref \in {deref(insts[i + 1], refList, lineMap[i + 1], i * 4)} :
       \E made \in {InstructionEncode(instDeref.text)} :
       \E inst \in {IF made.ok THEN made ELSE FillInstruction} :
           IF instDeref.threw
           THEN /\ result' = Threw("UndefinedLabel", lineMap[i + 1], instDeref.name)
                /\ pc' = "error"
                /\ UNCHANGED <<i, ret, instBytes, codecCalls>>
           ELSE /\ codecCalls' = Append(codecCalls, instDeref.text)
                /\ IF ~ made.ok /\ ~ args.ignoreIllegal
                   THEN /\ result' = Threw("IllegalInstruction", lineMap[i + 1], "")
                        /\ pc' = "error"
                        /\ UNCHANGED <<i, ret, instBytes>>
                   ELSE /\ instBytes' = instBytes \o fromHex(inst.hex)
                        /\ ret' = IF args.outputMode # "Raw bytes"
                                  THEN Append(ret, EncodeLine(i, inst, args, Len(insts),
                                                  insts[i + 1], invRef(refList, i * 4)))
                                  ELSE ret
                        /\ i' = i + 1
                        /\ UNCHANGED <<pc, result>>
    /\ UNCHANGED <<interpreter, operation, commands, bytesIn, args, codes, refList, insts, lineMap>>

RunEncodeReturn ==
    /\ pc = "run"
    /\ operation \in {"Encode", "EncodeMjs"}
    /\ i = Len(insts)
    /\ result' = Returned(args, instBytes, ret)
    /\ pc' = "done"
    /\ UNCHANGED <<interpreter, operation, commands, bytesIn, args, codes, i, refList, insts, lineMap,
                   ret, instBytes, codecCalls>>

(***************************************************************************)
(* RISCVEncode.run of RISCVEncode.mjs (no labels)                          *)
(***************************************************************************)
RunMjsStart ==
    /\ pc = "start"
    /\ operation = "EncodeMjs"
    /\ insts' = SplitCommands(commands)
    /\ pc' = "run"
    /\ UNCHANGED <<interpreter, operation, commands, bytesIn, args, codes, i, refList, lineMap,
                   ret, instBytes, codecCalls, result>>

RunMjsInst ==
    /\ pc = "run"
    /\ operation = "EncodeMjs"
    /\ i < Len(insts)
    /\ \E made \in {InstructionEncode(insts[i + 1])} :
       \E inst \in {IF made.ok THEN made ELSE FillInstructionMjs} :
           /\ codecCalls' = Append(codecCalls, insts[i + 1])
           /\ IF ~ made.ok /\ ~ args.ignoreIllegal
              THEN /\ result' = Threw("IllegalInstruction", i + 1, "")
                   /\ pc' = "error"
                   /\ UNCHANGED <<i, ret, instBytes>>
              ELSE /\ instBytes' = instBytes \o fromHex(inst.hex)
                   /\ ret' = IF args.outputMode # "Raw bytes"
                             THEN Append(ret, EncodeLineMjs(i, inst, args, Len(insts),
                                                            insts[i + 1]))
                             ELSE ret
                   /\ i' = i + 1
                   /\ UNCHANGED <<pc, result>>
    /\ UNCHANGED <<interpreter, operation, commands, bytesIn, args, codes, refList, insts, lineMap>>

(***************************************************************************)
(* RISCVDecode.run                                                         *)
(***************************************************************************)
IllegalAsm == "*** illegal instruction ***"

DecodeLine(k, instHex, asm, a, instNum) ==
    LET addr == AddrText(k, AddrLength(instNum))
    IN  IF a.showAddr /\ a.showBytecode THEN addr \o " (" \o instHex \o "): " \o asm
        ELSE IF a.showAddr THEN addr \o ": " \o asm
        ELSE IF a.showBytecode THEN instHex \o ": " \o asm
        ELSE asm

\* Mutant: only odd lengths are refused.
MisalignedMutant(bytes) == Len(bytes) % 2 # 0

\* insts.length % 4 !== 0
Misaligned(bytes) == Len(bytes) % 4 # 0

\* Mutant: every iteration reads the first slot.
SlotBytesMutant(bytes, k) == SubSeq(bytes, 1, 4)

\* insts.slice(i * 4, i * 4 + 4)
SlotBytes(bytes, k) == SubSeq(bytes, k * 4 + 1, k * 4 + 4)

\* The length check that opens run.
RunDecodeStart ==
    /\ pc = "start"
    /\ operation = "Decode"
    /\ IF Misaligned(bytesIn)
       THEN /\ result' = Threw("MisalignedInput", 0, "")
            /\ pc' = "error"
       ELSE /\ pc' = "run"
            /\ UNCHANGED result
    /\ UNCHANGED <<interpreter, operation, commands, bytesIn, args, codes, i, refList, insts, lineMap,
                   ret, instBytes, codecCalls>>

\* One iteration of the loop over the 4-byte slots.
RunDecodeInst ==
    /\ pc = "run"
    /\ operation = "Decode"
    /\ i < Len(bytesIn) \div 4
    /\ \E instNum \in {Len(bytesIn) \div 4} :
       \E instHex \in {toHexFast(SlotBytes(bytesIn, i))} :
       \E made \in {InstructionDecode(instHex, args.abi, args.showImmAsHex)} :
       \E asm \in {IF made.ok THEN made.asm ELSE IllegalAsm} :
           /\ codecCalls' = Append(codecCalls, instHex)
           /\ IF ~ made.ok /\ ~ args.ignoreIllegal
              THEN /\ result' = [Threw("IllegalInstruction", 0, "") EXCEPT
                                    !.addr = AddrText(i, AddrLength(instNum))]
                   /\ pc' = "error"
                   /\ UNCHANGED <<i, ret>>
              ELSE /\ ret' = Append(ret, DecodeLine(i, instHex, asm, args, instNum))
                   /\ i' = i + 1
                   /\ UNCHANGED <<pc, result>>
    /\ UNCHANGED <<interpreter, operation, commands, bytesIn, args, codes, refList, insts, lineMap,
                   instBytes>>

RunDecodeReturn ==
    /\ pc = "run"
    /\ operation = "Decode"
    /\ i = Len(bytesIn) \div 4
    /\ result' = [NoResult EXCEPT !.kind = "ok", !.text = join(ret, "\n")]
    /\ pc' = "done"
    /\ UNCHANGED <<interpreter, operation, commands, bytesIn, args, codes, i, refList, insts, lineMap,
                   ret, instBytes, codecCalls>>

(***************************************************************************)
(* The codec alone: an instruction is encoded, the word is decoded.        *)
(***************************************************************************)
CodecEncode ==
    /\ pc = "start"
    /\ operation = "Codec"
    /\ codes' = <<InstructionEncode(commands)>>
    /\ codecCalls' = <<commands>>
    /\ pc' = "encoded"
    /\ UNCHANGED <<interpreter, operation, commands, bytesIn, args, i, refList, insts, lineMap,
                   ret, instBytes, result>>

CodecDecode ==
    /\ pc = "encoded"
    /\ operation = "Codec"
    /\ \E inst \in {InstructionDecode(codes[1].hex, args.abi, args.showImmAsHex)} :
           /\ ret' = <<inst.asm>>
           /\ result' = IF codes[1].ok /\ inst.ok
                         THEN [NoResult EXCEPT !.kind = "ok", !.text = inst.asm]
                         ELSE [NoResult EXCEPT !.kind = "IllegalInstruction"]
    /\ pc' = "done"
    /\ UNCHANGED <<interpreter, operation, commands, bytesIn, args, codes, i, refList, insts, lineMap,
                   instBytes, codecCalls>>

(***************************************************************************)
(* RunBrainfuck.mjs                                                        *)
(***************************************************************************)
\* if (loopCounter++ > 10000)
LoopLimit == 10000

\* The keys of ops.
OpChars == {"+", "-", "<", ">", ".", ","}

\* The state of the operation outside the interpreter's closure.
driver == <<operation, commands, bytesIn, args, codes, i, refList, insts, lineMap,
            ret, instBytes, codecCalls>>

\* The characters parseProgram and parseLoop turn into nodes or brackets;
\* every other character is shifted away.
NodesOf(str) ==
    LET F[k \in 0..Len(str)] ==
            IF k = 0 THEN <<>>
            ELSE IF Char(str, k) \in OpChars \cup {"[", "]"}
            THEN Append(F[k - 1], Char(str, k)) ELSE F[k - 1]
    IN  F[Len(str)]

\* The number of parseLoop calls open after the first k characters of ns.
Depth(ns, k) ==
    Cardinality({j \in 1..k : ns[j] = "["}) - Cardinality({j \in 1..k : ns[j] = "]"})

\* The "]" parseLoop discards for the "[" at position open.
Match(ns, open) ==
    CHOOSE close \in (open + 1)..Len(ns) :
        /\ Depth(ns, close) = Depth(ns, open - 1)
        /\ \A j \in (open + 1)..(close - 1) : Depth(ns, j) > Depth(ns, open - 1)

\* data[ptr] || 0
CellOrZero(d, p) == IF p \in DOMAIN d THEN d[p] ELSE 0

\* data[ptr] = v
Store(d, p, v) == [q \in DOMAIN d \cup {p} |-> IF q = p THEN v ELSE d[q]]

\* data[ptr] > 0 : false for a cell never written.
Positive(d, p) == p \in DOMAIN d /\ d[p] > 0

\* String.fromCharCode(data[ptr]) : the code unit, 0 for undefined.
fromCharCode(d, p) == IF p \in DOMAIN d THEN d[p] % 65536 ELSE 0

\* ptr--; if (ptr < 0) ptr = 0;
MoveLeft(p) == IF p - 1 < 0 THEN 0 ELSE p - 1

\* Mutant: the counter is compared and not incremented.
NextCounterMutant(c) == c

\* loopCounter++
NextCounter(c) == c + 1

\* The function that is executing, and where its list of nodes ends: a
\* frame is [open, at, loopCounter], open the position of the loop's "["
\* (0 for program), at the position of the node forEach calls next.
Top == frames[Len(frames)]

FrameEnd(f) == IF f.open = 0 THEN Len(nodes) + 1 ELSE Match(nodes, f.open)

Advance(fs) == [fs EXCEPT ![Len(fs)].at = @ + 1]

\* forEach is about to call the node ch of ops.
AtOp(ch) ==
    /\ pc = "exec"
    /\ operation = "Brainfuck"
    /\ Top.at < FrameEnd(Top)
    /\ nodes[Top.at] = ch

\* run: this.parse(input), that is parse, parseProgram and parseLoop.
BfParse ==
    /\ pc = "start"
    /\ operation = "Brainfuck"
    /\ \E ns \in {NodesOf(commands)} :
           IF \E k \in 1..Len(ns) : ns[k] = "]" /\ Depth(ns, k - 1) = 0
           THEN /\ result' = Threw("MissingOpeningBracket", 0, "")
                /\ pc' = "error"
                /\ UNCHANGED nodes
           ELSE IF Depth(ns, Len(ns)) > 0
           THEN /\ result' = Threw("MissingClosingBracket", 0, "")
                /\ pc' = "error"
                /\ UNCHANGED nodes
           ELSE /\ nodes' = ns
                /\ pc' = "parsed"
                /\ UNCHANGED result
    /\ UNCHANGED <<driver, input, output, data, ptr, frames>>

\* The function program returns, up to its forEach.
BfProgram ==
    /\ pc = "parsed"
    /\ operation = "Brainfuck"
    /\ output' = <<>>
    /\ data' = <<>>
    /\ ptr' = 0
    /\ input' = args.bfInput
    /\ frames' = <<[open |-> 0, at |-> 1, loopCounter |-> 0]>>
    /\ pc' = "exec"
    /\ UNCHANGED <<driver, nodes, result>>

OpPlus ==
    /\ AtOp("+")
    /\ data' = Store(data, ptr, CellOrZero(data, ptr) + 1)
    /\ frames' = Advance(frames)
    /\ UNCHANGED <<driver, nodes, input, output, ptr, pc, result>>

OpMinus ==
    /\ AtOp("-")
    /\ data' = Store(data, ptr, CellOrZero(data, ptr) - 1)
    /\ frames' = Advance(frames)
    /\ UNCHANGED <<driver, nodes, input, output, ptr, pc, result>>

OpLeft ==
    /\ AtOp("<")
    /\ ptr' = MoveLeft(ptr)
    /\ frames' = Advance(frames)
    /\ UNCHANGED <<driver, nodes, input, output, data, pc, result>>

OpRight ==
    /\ AtOp(">")
    /\ ptr' = ptr + 1
    /\ frames' = Advance(frames)
    /\ UNCHANGED <<driver, nodes, input, output, data, pc, result>>

OpDot ==
    /\ AtOp(".")
    /\ output' = Append(output, fromCharCode(data, ptr))
    /\ frames' = Advance(frames)
    /\ UNCHANGED <<driver, nodes, input, data, ptr, pc, result>>

OpComma ==
    /\ AtOp(",")
    /\ IF input = <<>>
       THEN /\ result' = Threw("InputNotEnough", 0, "")
            /\ pc' = "error"
            /\ UNCHANGED <<input, data, frames>>
       ELSE /\ input' = Tail(input)
            /\ data' = Store(data, ptr, Head(input))
            /\ frames' = Advance(frames)
            /\ UNCHANGED <<pc, result>>
    /\ UNCHANGED <<driver, nodes, output, ptr>>

\* forEach calls the function loop returned: its counter starts at 0 and
\* its while is tested first.
LoopCall ==
    /\ AtOp("[")
    /\ \E close \in {Match(nodes, Top.at)} :
           frames' = Append([frames EXCEPT ![Len(frames)].at = close + 1],
                            [open |-> Top.at, at |-> close, loopCounter |-> 0])
    /\ UNCHANGED <<driver, nodes, input, output, data, ptr, pc, result>>

\* while (data[ptr] > 0) and the test of loopCounter, once the nodes of
\* the loop are through.
LoopTest ==
    /\ pc = "exec"
    /\ operation = "Brainfuck"
    /\ Top.open # 0
    /\ Top.at = FrameEnd(Top)
    /\ IF ~ Positive(data, ptr)
       THEN /\ frames' = SubSeq(frames, 1, Len(frames) - 1)
            /\ UNCHANGED <<pc, result>>
       ELSE IF Top.loopCounter > LoopLimit
       THEN /\ result' = Threw("InfiniteLoop", 0, "")
            /\ pc' = "error"
            /\ frames' = [frames EXCEPT ![Len(frames)].loopCounter = NextCounter(@)]
       ELSE /\ frames' = [frames EXCEPT ![Len(frames)].loopCounter = NextCounter(@),
                                         ![Len(frames)].at = Top.open + 1]
            /\ UNCHANGED <<pc, result>>
    /\ UNCHANGED <<driver, nodes, input, output, data, ptr>>

\* return output.join("")
BfReturn ==
    /\ pc = "exec"
    /\ operation = "Brainfuck"
    /\ Top.open = 0
    /\ Top.at = FrameEnd(Top)
    /\ result' = [NoResult EXCEPT !.kind = "ok", !.bytes = output]
    /\ pc' = "done"
    /\ UNCHANGED <<driver, interpreter>>

Next ==
    \/ ParseRefStart
    \/ ParseRefLine
    \/ ParseRefReturn
    \/ RunEncodeInst
    \/ RunEncodeReturn
    \/ RunMjsStart
    \/ RunMjsInst
    \/ RunDecodeStart
    \/ RunDecodeInst
    \/ RunDecodeReturn
    \/ CodecEncode
    \/ CodecDecode
    \/ BfParse
    \/ BfProgram
    \/ OpPlus
    \/ OpMinus
    \/ OpLeft
    \/ OpRight
    \/ OpDot
    \/ OpComma
    \/ LoopCall
    \/ LoopTest
    \/ BfReturn

Spec == Init /\ [][Next]_vars

\* RunBrainfuck alone.  The interpreter is one synchronous call: while a
\* step is possible, one is taken.
NextBrainfuck ==
    \/ BfParse
    \/ BfProgram
    \/ OpPlus
    \/ OpMinus
    \/ OpLeft
    \/ OpRight
    \/ OpDot
    \/ OpComma
    \/ LoopCall
    \/ LoopTest
    \/ BfReturn
SpecBrainfuck == InitBrainfuck /\ [][NextBrainfuck]_vars /\ WF_vars(NextBrainfuck)

\* The codec alone.
NextCodec == CodecEncode \/ CodecDecode
SpecCodec == InitCodec /\ [][NextCodec]_vars

\* The label-aware assembler alone.
NextEncode ==
    \/ ParseRefStart
    \/ ParseRefLine
    \/ ParseRefReturn
    \/ RunEncodeInst
    \/ RunEncodeReturn

SpecEncode == InitOf("Encode") /\ [][NextEncode]_vars

\* The label-aware assembler under every output configuration.
SpecEncodeModes == InitEncodeModes /\ [][NextEncode]_vars

\* RISCVEncode.mjs alone.
NextEncodeMjs ==
    \/ RunMjsStart
    \/ RunMjsInst
    \/ RunEncodeReturn

SpecEncodeMjs == InitOf("EncodeMjs") /\ [][NextEncodeMjs]_vars

\* The disassembler alone.
NextDecode ==
    \/ RunDecodeStart
    \/ RunDecodeInst
    \/ RunDecodeReturn

SpecDecode == InitOf("Decode") /\ [][NextDecode]_vars

(***************************************************************************)
(* Vocabulary of the properties.                                           *)
(***************************************************************************)
\* The lines of the source text, one per newline.
SourceText == split(commands, "\n")

\* What a line states: whether it defines a label (it contains ':'), the
\* label's name (the substring before the first ':'), whether it carries an
\* instruction (no label, or `label: instr`) and the instruction's text.
TrimmedLineInfo(l, t) ==
    IF ~ includes(l, ":")
    THEN [isLabel |-> FALSE, name |-> "", queues |-> TRUE, instr |-> t]
    ELSE IF endsWith(t, ":")
    THEN [isLabel |-> TRUE, name |-> split(t, ":")[1], queues |-> FALSE, instr |-> ""]
    ELSE With(split(t, ":"),
              LAMBDA parts : [isLabel |-> TRUE, name |-> parts[1], queues |-> TRUE,
                              instr |-> trim(parts[2])])

LineInfo(l) == With(trim(l), LAMBDA t : TrimmedLineInfo(l, t))

\* The lines of the program (the non-empty lines of the source, in order, as
\* parseRef holds them once it has split its input), each with what it states.
ProgramLines == [j \in 1..Len(codes) |-> LineInfo(codes[j])] \o <<>>

\* Number of instruction lines among the first j - 1 lines of pl.
InstrsBefore(pl, j) == Cardinality({m \in 1..(j - 1) : pl[m].queues})

\* The lines of pl that define the label name.
Definitions(pl, name) == {j \in 1..Len(pl) : pl[j].isLabel /\ pl[j].name = name}

SetMin(S) == CHOOSE x \in S : \A y \in S : x <= y

\* The address of a defined label: 4 x (instruction lines before its line).
AddressOfLabel(pl, name) == 4 * InstrsBefore(pl, SetMin(Definitions(pl, name)))

Tokens(text) == splitRegex(text, {" ", ",", "(", ")"})

ButLast(q) == SubSeq(q, 1, Len(q) - 1)

ControlTransfer(tokens) ==
    toLowerCase(tokens[1]) \in {"jal", "beq", "bne", "blt", "bge", "bltu", "bgeu"}

\* A numeric literal: a decimal integer or a 0x-prefixed hex integer.
NumericLiteral(tok) ==
    LET body == IF Len(tok) >= 1 /\ Char(tok, 1) \in {"-", "+"}
                THEN SubSeq(tok, 2, Len(tok)) ELSE tok
    IN  \/ Len(body) >= 1 /\ AllIn(body, Digits)
        \/ /\ Len(body) >= 3
           /\ SubSeq(body, 1, 2) \in {"0x", "0X"}
           /\ AllIn(SubSeq(body, 3, Len(body)), HexDigits)

\* Lines parseRef has gone through so far.
Processed(pl) ==
    IF pc = "start" THEN 0
    ELSE IF pc = "parseRef" \/ result.kind \in {"DuplicateLabel", "InvalidLabelName"} THEN i
    ELSE Len(pl)

(***************************************************************************)
(* C1: a control-transfer instruction whose final operand is a defined     *)
(* label is handed to the codec with that operand replaced by the signed   *)
(* byte offset label_address - 4 x (index of the instruction).             *)
(***************************************************************************)
C1_LabelOperandBecomesOffset ==
    (operation = "Encode" /\ codecCalls # <<>>) =>
        \A pl \in {ProgramLines} :
            \A k \in 1..Len(codecCalls) :
                LET tokens == Tokens(insts[k])
                    target == tokens[Len(tokens)]
                    handed == Tokens(codecCalls[k])
                IN  (ControlTransfer(tokens) /\ Definitions(pl, target) # {}) =>
                        /\ handed[Len(handed)]
                             = toString(AddressOfLabel(pl, target) - 4 * (k - 1), 10)
                        /\ ButLast(handed) = ButLast(tokens)

(***************************************************************************)
(* C2: every label of the table has the address 4 x (instruction lines     *)
(* queued before its line); `label: instr` defines the label and queues    *)
(* instr at that address, a label-only line queues nothing; addresses are  *)
(* multiples of 4 between 0 and 4 x (instruction count).                   *)
(***************************************************************************)
C2_LabelAddresses ==
    (operation = "Encode" /\ pc # "start") =>
        \A pl \in {ProgramLines} :
        \A done \in {Processed(pl)} :
            /\ Len(insts) = InstrsBefore(pl, done + 1)
            /\ \A r \in 1..Len(refList) :
                   LET name == refList[r].name
                       addr == refList[r].addr
                   IN  /\ \E j \in Definitions(pl, name) :
                              /\ j <= done
                              /\ addr = 4 * InstrsBefore(pl, j)
                              /\ pl[j].queues =>
                                     /\ insts[addr \div 4 + 1] = pl[j].instr
                                     /\ lineMap[addr \div 4 + 1] = j
                       /\ addr % 4 = 0
                       /\ addr >= 0
                       /\ addr <= 4 * Len(insts)

\* A finished run whose table has a label of a `label: instr` line at
\* address 4 and whose program has a label-only line.
C2_Witness ==
    /\ operation = "Encode"
    /\ pc = "done"
    /\ \E pl \in {ProgramLines} :
           /\ \E r \in 1..Len(refList) :
                  /\ refList[r].addr = 4
                  /\ \E j \in Definitions(pl, refList[r].name) : pl[j].queues
           /\ \E j \in 1..Len(pl) : pl[j].isLabel /\ ~ pl[j].queues

(***************************************************************************)
(* C3: a program that defines the same label name on two lines raises      *)
(* DuplicateLabel at the second definition and never reaches the codec.    *)
(***************************************************************************)
\* Lines of pl that define a label an earlier line has defined.
SecondDefinitions(pl) ==
    {j \in 1..Len(pl) :
        pl[j].isLabel /\ \E m \in 1..(j - 1) : pl[m].isLabel /\ pl[m].name = pl[j].name}

RunPhase ==
    \/ pc \in {"run", "done"}
    \/ pc = "error" /\ result.kind \in {"UndefinedLabel", "IllegalInstruction"}

\* Instruction text inst refers to a label no line of pl defines.
RefersToUndefined(pl, inst) ==
    \A tokens \in {Tokens(inst)} :
        /\ ControlTransfer(tokens)
        /\ ~ NumericLiteral(tokens[Len(tokens)])
        /\ Definitions(pl, tokens[Len(tokens)]) = {}

C4_UndefinedLabelAlwaysRaised ==
    (operation = "Encode" /\ RunPhase) =>
        \A pl \in {ProgramLines} :
            \A k \in 1..Len(insts) :
                RefersToUndefined(pl, insts[k]) =>
                    /\ Len(codecCalls) < k
                    /\ pc # "done"
                    /\ (pc = "error" /\ i = k - 1) =>
                           /\ result.kind = "UndefinedLabel"
                           /\ result.name = Tokens(insts[k])[Len(Tokens(insts[k]))]

(***************************************************************************)
(* C5: deref hands a control-transfer instruction to the codec unchanged   *)
(* if and only if its final operand is a numeric literal (decimal or       *)
(* 0x-prefixed hex); a label such as a0x1 is resolved, not passed through. *)
(***************************************************************************)
C5_PassThroughIffNumericLiteral ==
    (operation = "Encode" /\ codecCalls # <<>>) =>
        \A k \in 1..Len(codecCalls) :
            \A tokens \in {Tokens(insts[k])} :
                ControlTransfer(tokens) =>
                    (codecCalls[k] = insts[k] <=> NumericLiteral(tokens[Len(tokens)]))

(***************************************************************************)
(* C6: with ignore-illegal set, a program with a label defined twice, a    *)
(* label name that starts with a digit or a control transfer to an         *)
(* undefined label never returns output.                                   *)
(***************************************************************************)
HasLabelError(pl) ==
    \/ SecondDefinitions(pl) # {}
    \/ \E j \in 1..Len(pl) : pl[j].isLabel /\ StartsWithDigit(pl[j].name)
    \/ \E j \in 1..Len(pl) : pl[j].queues /\ RefersToUndefined(pl, pl[j].instr)

C6_LabelErrorsFatal ==
    (operation = "Encode" /\ args.ignoreIllegal /\ pc = "done") =>
        ~ HasLabelError(ProgramLines)

(***************************************************************************)
(* C7: with ignore-illegal set, every instruction line the codec rejects   *)
(* yields the fill word in its own slot in every output mode (bytes        *)
(* ff ff ff ff, "ffffffff", thirty-two '1's), the run goes on, and the     *)
(* output has exactly one word per instruction line, in order.             *)
(***************************************************************************)
\* The word of an output line: after the address when addresses are shown.
WordOfLine(line, a) ==
    With(split(line, " "),
         LAMBDA parts : IF ~ a.showAddr THEN parts[1]
                        ELSE IF Len(parts) >= 2 THEN parts[2] ELSE "")

FillWord(outputMode) ==
    IF outputMode = "Hex string" THEN "ffffffff"
    ELSE "11111111111111111111111111111111"

C7_FillPatternEveryMode ==
    (operation = "EncodeMjs" /\ args.ignoreIllegal /\ pc # "start") =>
        /\ pc # "error"
        /\ Len(instBytes) = 4 * i
        /\ Len(ret) = (IF args.outputMode = "Raw bytes" THEN 0 ELSE i)
        /\ \A k \in 1..i :
               ~ InstructionEncode(insts[k]).ok =>
                   /\ SubSeq(instBytes, 4 * k - 3, 4 * k) = <<255, 255, 255, 255>>
                   /\ args.outputMode # "Raw bytes" =>
                          WordOfLine(ret[k], args) = FillWord(args.outputMode)
        /\ pc = "done" => i = Len(insts)

(***************************************************************************)
(* C8: without ignore-illegal, the error for an instruction the codec      *)
(* rejects carries the 1-indexed number of that instruction's line in the  *)
(* source text, blank lines and label lines before it included, and it is  *)
(* the first rejected instruction in source order.                         *)
(***************************************************************************)
\* The lines of the source text that carry an instruction.
SourceInstrLines(text) ==
    {j \in 1..Len(text) : text[j] # "" /\ LineInfo(text[j]).queues}

\* The line of the source text that carries the k-th instruction.
SourceLineOf(text, k) ==
    CHOOSE j \in SourceInstrLines(text) :
        Cardinality({m \in SourceInstrLines(text) : m <= j}) = k

C8_ErrorTaggedWithSourceLine ==
    (operation = "Encode" /\ pc = "error" /\ result.kind = "IllegalInstruction") =>
        \A k \in {Len(codecCalls)} :
            /\ ~ InstructionEncode(codecCalls[k]).ok
            /\ \A m \in 1..(k - 1) : InstructionEncode(codecCalls[m]).ok
            /\ result.line = SourceLineOf(SourceText, k)

(***************************************************************************)
(* C9: an input whose byte count is not a multiple of 4 fails with         *)
(* MisalignedInput under every configuration, before the codec is invoked  *)
(* on any slot and without any output.                                     *)
(***************************************************************************)
C9_MisalignedBeforeCodec ==
    (operation = "Decode" /\ Len(bytesIn) % 4 # 0) =>
        /\ pc \in {"start", "error"}
        /\ pc = "error" => result.kind = "MisalignedInput"
        /\ codecCalls = <<>>
        /\ ret = <<>>
        /\ result.text = ""

\* MisalignedInput with ignore-illegal set on an input that holds a whole
\* slot before its incomplete one.
C9_Witness ==
    /\ operation = "Decode"
    /\ pc = "error"
    /\ result.kind = "MisalignedInput"
    /\ args.ignoreIllegal
    /\ Len(bytesIn) > 4

(***************************************************************************)
(* C10: with ignore-illegal set, an input of 4n bytes never raises and     *)
(* returns n newline-joined lines in address order; line k carries         *)
(* `*** illegal instruction ***` exactly when the codec rejects word k,    *)
(* and otherwise what word k decodes to, whatever the other slots hold.    *)
(***************************************************************************)
\* Word k (from 0) of the input, as the hex string handed to the codec.
WordHex(k) == toHexFast(SubSeq(bytesIn, 4 * k + 1, 4 * k + 4))

\* The line of slot k of n: it depends on the word of slot k alone.
ExpectedDecodeLine(k, n) ==
    With(InstructionDecode(WordHex(k), args.abi, args.showImmAsHex),
         LAMBDA made : DecodeLine(k, WordHex(k),
                                  IF made.ok THEN made.asm ELSE IllegalAsm, args, n))

C10_IgnoreIllegalDecode ==
    (operation = "Decode" /\ args.ignoreIllegal /\ Len(bytesIn) % 4 = 0) =>
        \A n \in {Len(bytesIn) \div 4} :
            /\ pc # "error"
            /\ i <= n
            /\ Len(ret) = i
            /\ \A k \in 1..Len(ret) : ret[k] = ExpectedDecodeLine(k - 1, n)
            /\ pc = "done" =>
                   /\ i = n
                   /\ result.kind = "ok"
                   /\ n > 0 => split(result.text, "\n") = ret
                   /\ n = 0 => result.text = ""

\* A finished run over a legal word followed by an illegal one.
C10_Witness ==
    /\ operation = "Decode"
    /\ args.ignoreIllegal
    /\ pc = "done"
    /\ Len(bytesIn) = 8
    /\ InstructionDecode(WordHex(0), args.abi, args.showImmAsHex).ok
    /\ ~ InstructionDecode(WordHex(1), args.abi, args.showImmAsHex).ok
    /\ Len(split(result.text, "\n")) = 2

(***************************************************************************)
(* C11: without ignore-illegal, an aligned input with a word the codec     *)
(* rejects raises an error tagged with the hex address 4k of the lowest    *)
(* rejected slot k, zero-padded to the address width, and returns no       *)
(* output, not even for the valid slots before k.                          *)
(***************************************************************************)
\* The slots of the input whose word the codec rejects.
RejectedSlots ==
    {k \in 0..(Len(bytesIn) \div 4 - 1) :
        ~ InstructionDecode(WordHex(k), args.abi, args.showImmAsHex).ok}

\* Hex digits of the address width of n slots: ceil(log16(4n)).
AddressWidth(n) == CHOOSE w \in 1..8 : 16 ^ w >= 4 * n /\ 16 ^ (w - 1) < 4 * n

\* The zero-padded hex address of slot k of n.
ExpectedAddress(k, n) ==
    With(toString(4 * k, 16),
         LAMBDA h : "0x" \o (IF Len(h) < AddressWidth(n) THEN "0" ELSE "") \o h)

C11_IllegalTaggedWithAddress ==
    (operation = "Decode" /\ ~ args.ignoreIllegal /\ Len(bytesIn) % 4 = 0) =>
        \A rejected \in {RejectedSlots} :
            rejected # {} =>
                \A k \in {SetMin(rejected)} :
                    /\ pc # "done"
                    /\ i <= k
                    /\ result.kind \in {"none", "IllegalInstruction"}
                    /\ result.text = ""
                    /\ pc = "error" =>
                           /\ i = k
                           /\ result.kind = "IllegalInstruction"
                           /\ result.addr = ExpectedAddress(k, Len(bytesIn) \div 4)

\* The error of a rejected second slot of an input of more than four
\* slots: a valid slot precedes it and its address is zero-padded.
C11_Witness ==
    /\ operation = "Decode"
    /\ ~ args.ignoreIllegal
    /\ pc = "error"
    /\ result.kind = "IllegalInstruction"
    /\ result.addr = "0x04"
    /\ Len(ret) = 1

(***************************************************************************)
(* C12: in a textual output mode with show-source-text set, the line of    *)
(* the instruction at address a ends with the instruction's source text    *)
(* and with the names of exactly the labels whose table address is a (all  *)
(* aliases, no label of another address); without such a label the line    *)
(* has no label suffix.                                                    *)
(***************************************************************************)
\* The names of the label table with address a.
LabelsAt(a) == {refList[r].name : r \in {q \in 1..Len(refList) : refList[q].addr = a}}

\* What follows the source text on an output line, "" when nothing does.
AfterSourceText(line) ==
    With(split(line, "]"), LAMBDA parts : IF Len(parts) = 2 THEN parts[2] ELSE "?")

\* The names listed by a label suffix ` (label: n1, n2)`, in order.
SuffixNames(suffix) ==
    With(split(SubSeq(suffix, 10, Len(suffix) - 1), ","),
         LAMBDA names : [j \in 1..Len(names) |-> trim(names[j])] \o <<>>)

\* Line k of the output carries the source text of instruction k and the
\* labels of its address.
LineCarriesLabels(k) ==
    \A suffix \in {AfterSourceText(ret[k])} :
    \A labels \in {LabelsAt(4 * (k - 1))} :
        /\ endsWith(split(ret[k], "]")[1], " [ " \o trim(insts[k]) \o " ")
        /\ labels = {} => suffix = ""
        /\ labels # {} =>
               /\ Len(suffix) > 10
               /\ SubSeq(suffix, 1, 9) = " (label: "
               /\ Char(suffix, Len(suffix)) = ")"
               /\ \A names \in {SuffixNames(suffix)} :
                      /\ {names[j] : j \in 1..Len(names)} = labels
                      /\ Len(names) = Cardinality(labels)

C12_LabelSuffix ==
    (operation = "Encode" /\ args.outputMode # "Raw bytes" /\ args.showInput) =>
        /\ Len(ret) <= Len(insts)
        /\ \A k \in 1..Len(ret) : LineCarriesLabels(k)
        /\ pc = "done" => Len(ret) = Len(insts)

\* A finished run without addresses whose output has a line with two
\* aliased labels and a line without label.
C12_Witness ==
    /\ operation = "Encode"
    /\ args.outputMode = "Binary string"
    /\ args.showInput
    /\ ~ args.showAddr
    /\ pc = "done"
    /\ \E k \in 1..Len(ret) : Cardinality(LabelsAt(4 * (k - 1))) = 2
    /\ \E k \in 1..Len(ret) : LabelsAt(4 * (k - 1)) = {}

(***************************************************************************)
(* C13: round trip.  For every mnemonic of the table that is no pseudo     *)
(* instruction and every operand set in range without label reference,     *)
(* decoding the word that encoding produced gives back the mnemonic and    *)
(* the operands, register names taken in either of their two forms:        *)
(* decode(encode(x)) = x.                                                  *)
(***************************************************************************)
\* The mnemonic, registers and immediate an assembly text states.
Operands(asm) ==
    With(splitRegex(asm, {" ", ","}),
         LAMBDA toks :
             IF Len(toks) < 3 THEN [mne |-> "", regs |-> <<>>, imm |-> [ok |-> FALSE, val |-> 0]]
             ELSE [mne  |-> toks[1],
                   regs |-> [j \in 1..(Len(toks) - 2) |-> RegIndex(toks[j + 1])],
                   imm  |-> ParseImm(toks[Len(toks)])])

InstrTexts(pl) ==
    LET F[k \in 0..Len(pl)] ==
            IF k = 0 THEN <<>>
            ELSE IF pl[k].queues THEN Append(F[k - 1], pl[k].instr) ELSE F[k - 1]
    IN  F[Len(pl)]

C14_OthersPassedThrough ==
    (operation = "Encode" /\ RunPhase) =>
        \A texts \in {InstrTexts(ProgramLines)} :
            /\ Len(codecCalls) <= Len(texts)
            /\ \A k \in 1..Len(codecCalls) :
                   ~ ControlTransfer(Tokens(texts[k])) => codecCalls[k] = texts[k]
            /\ result.kind = "UndefinedLabel" =>
                   /\ i < Len(texts)
                   /\ ControlTransfer(Tokens(texts[i + 1]))
            /\ pc = "done" => Len(codecCalls) = Len(texts)

\* `li x1, L` has reached the codec as written although L is a label of
\* the table.
C14_Witness ==
    /\ operation = "Encode"
    /\ \E r \in 1..Len(refList) : refList[r].name = "L"
    /\ \E k \in 1..Len(codecCalls) : codecCalls[k] = "li x1, L"
    /\ pc = "done"

(***************************************************************************)
(* C15: a Brainfuck program that parse accepts terminates on every input:  *)
(* it returns its output or raises "Infinite loop detected" (a single      *)
(* activation of a loop has run more than 10000 iterations) or "Input is   *)
(* not enough".  This holds for loops within loops, where every activation *)
(* of a loop has its own iteration counter, and the data pointer is never  *)
(* negative.                                                               *)
(***************************************************************************)
\* The brackets of str pair up.
Balanced(str) ==
    LET opens(k)  == Cardinality({j \in 1..k : Char(str, j) = "["})
        closes(k) == Cardinality({j \in 1..k : Char(str, j) = "]"})
    IN  /\ \A k \in 1..Len(str) : closes(k) <= opens(k)
        /\ opens(Len(str)) = closes(Len(str))

Terminated == pc \in {"done", "error"}

\* How a run may end, and what an error says about the state it left.
EndsAsStated ==
    /\ pc = "done" => result.kind = "ok" /\ result.bytes = output
    /\ pc = "error" =>
           /\ result.kind \in {"InfiniteLoop", "InputNotEnough"}
           /\ result.kind = "InfiniteLoop" =>
                  /\ Len(frames) > 1
                  /\ frames[Len(frames)].loopCounter - 1 > LoopLimit
           /\ result.kind = "InputNotEnough" => input = <<>>
    /\ ~ Terminated =>
           \A k \in 1..Len(frames) : frames[k].loopCounter <= LoopLimit + 1

\* A step leaves the counters of the activations below the one it works on
\* alone, adds at most one iteration to that one, and starts a new
\* activation at zero.
OwnCounter ==
    /\ \A k \in 1..Len(frames') :
           k <= Len(frames) =>
               \/ frames'[k].loopCounter = frames[k].loopCounter
               \/ /\ k = Len(frames)
                  /\ Len(frames') = Len(frames)
                  /\ frames'[k].loopCounter = frames[k].loopCounter + 1
    /\ Len(frames') > Len(frames) =>
           /\ Len(frames') = Len(frames) + 1
           /\ frames'[Len(frames')].loopCounter = 0

C15_BrainfuckTerminates ==
    /\ Balanced(commands) => <>Terminated
    /\ [](Balanced(commands) => ptr >= 0 /\ EndsAsStated)
    /\ [][Balanced(commands) => OwnCounter]_vars

\* The inner loop has run 6000 iterations in each of two activations, more
\* than the limit in total, and the program has returned.
C15_Witness ==
    /\ operation = "Brainfuck"
    /\ commands = ",[>,[-]<-]"
    /\ args.bfInput = <<2, 6000, 6000>>
    /\ pc = "done"
    /\ result.kind = "ok"
    /\ data[1] = 0

====
